---- MODULE Spec2Model ----
(***************************************************************************)
(* Model of source/download.py: the match-info pipeline                    *)
(*   aggregate_yaml_to_feather -> edit_and_write_info -> edit_feather_to_sql*)
(*                                                                         *)
(* Python strings are sequences of one-character strings, so that slicing, *)
(* str.replace, str.split, str.index and the regular expressions of the    *)
(* source are computed character by character as the interpreter does.     *)
(* Cell values are tagged records:                                         *)
(*   [str |-> s]   a Python str          [num |-> n]   a number            *)
(*   [date |-> <<y, m, d>>]  a datetime.date (what yaml.load makes of      *)
(*                           an unquoted YYYY-MM-DD scalar)                *)
(*   [list |-> xs] a Python list         [dict |-> kvs] a Python dict      *)
(*   None          Python None / SQL NULL      NaN   pandas' missing value *)
(***************************************************************************)
EXTENDS Integers, Sequences, FiniteSets, TLC

Str(s) == [str |-> s]
Num(n) == [num |-> n]
Date(y, m, d) == [date |-> <<y, m, d>>]
List(xs) == [list |-> xs]
Dict(kvs) == [dict |-> kvs]
None == [none |-> TRUE]
NaN == [nan |-> TRUE]

IsStr(v) == DOMAIN v = {"str"}
IsNum(v) == DOMAIN v = {"num"}
IsDate(v) == DOMAIN v = {"date"}
IsList(v) == DOMAIN v = {"list"}
IsDict(v) == DOMAIN v = {"dict"}

(***************************************************************************)
(* Python string primitives                                                *)
(***************************************************************************)
Digits == <<"0", "1", "2", "3", "4", "5", "6", "7", "8", "9">>
IsDigit(c) == \E k \in 1..10 : Digits[k] = c

RECURSIVE IntStr(_)
\* str(n) for a non-negative int
IntStr(n) == IF n < 10 THEN <<Digits[n + 1]>>
             ELSE IntStr(n \div 10) \o <<Digits[(n % 10) + 1]>>

RECURSIVE Concat(_)
Concat(ss) == IF ss = <<>> THEN <<>> ELSE Head(ss) \o Concat(Tail(ss))

RECURSIVE Join(_, _)
\* sep.join(parts)
Join(sep, parts) ==
    IF parts = <<>> THEN <<>>
    ELSE IF Len(parts) = 1 THEN parts[1]
    ELSE parts[1] \o sep \o Join(sep, Tail(parts))

\* pat occurs in s at position i (1-based)
MatchAt(s, i, pat) ==
    /\ i + Len(pat) - 1 <= Len(s)
    /\ \A k \in 1..Len(pat) : s[i + k - 1] = pat[k]

Contains(s, c) == \E k \in 1..Len(s) : s[k] = c

\* s[1:-1]
Slice1m1(s) == IF Len(s) < 2 THEN <<>> ELSE SubSeq(s, 2, Len(s) - 1)

\* s[:-1]
SliceToM1(s) == IF Len(s) < 1 THEN <<>> ELSE SubSeq(s, 1, Len(s) - 1)

RECURSIVE ReplaceFrom(_, _, _, _)
ReplaceFrom(s, old, new, i) ==
    IF i > Len(s) THEN <<>>
    ELSE IF MatchAt(s, i, old) THEN new \o ReplaceFrom(s, old, new, i + Len(old))
    ELSE <<s[i]>> \o ReplaceFrom(s, old, new, i + 1)

\* s.replace(old, new), old non-empty
Replace(s, old, new) == ReplaceFrom(s, old, new, 1)

RECURSIVE SplitFrom(_, _, _, _)
SplitFrom(s, sep, i, cur) ==
    IF i > Len(s) THEN <<cur>>
    ELSE IF MatchAt(s, i, sep) THEN <<cur>> \o SplitFrom(s, sep, i + Len(sep), <<>>)
    ELSE SplitFrom(s, sep, i + 1, Append(cur, s[i]))

\* s.split(sep): "".split(sep) is [""], a list of one empty string
Split(s, sep) == SplitFrom(s, sep, 1, <<>>)

\* s.index(c) as a 1-based position; 0 when c does not occur (Python raises)
IndexOf(s, c) ==
    IF Contains(s, c) THEN CHOOSE k \in 1..Len(s) : s[k] = c /\ \A j \in 1..(k - 1) : s[j] # c
    ELSE 0

(***************************************************************************)
(* str() and repr() of the parsed YAML values                              *)
(***************************************************************************)
ReprStr(s) ==
    IF Contains(s, "'") /\ ~Contains(s, "\"")
    THEN <<"\"">> \o s \o <<"\"">>
    ELSE <<"'">> \o Replace(s, <<"'">>, <<"\\", "'">>) \o <<"'">>

ReprDate(d) ==
    <<"d", "a", "t", "e", "t", "i", "m", "e", ".", "d", "a", "t", "e", "(">>
    \o IntStr(d[1]) \o <<",", " ">> \o IntStr(d[2]) \o <<",", " ">> \o IntStr(d[3])
    \o <<")">>

Repr(v) ==
    IF IsStr(v) THEN ReprStr(v.str)
    ELSE IF IsDate(v) THEN ReprDate(v.date)
    ELSE IntStr(v.num)

\* str(v) as infodf[col].astype(str) computes it for one cell
PyStr(v) ==
    IF IsStr(v) THEN v.str
    ELSE IF IsList(v)
         THEN <<"[">> \o Join(<<",", " ">>, [k \in 1..Len(v.list) |-> Repr(v.list[k])]) \o <<"]">>
    ELSE IF IsNum(v) THEN IntStr(v.num)
    ELSE IF v = NaN THEN <<"n", "a", "n">>
    ELSE <<"N", "o", "n", "e">>

(***************************************************************************)
(* Names used by the source                                                *)
(***************************************************************************)
dates == <<"d", "a", "t", "e", "s">>
player_of_match == <<"p", "l", "a", "y", "e", "r", "_", "o", "f", "_", "m", "a", "t", "c", "h">>
teams == <<"t", "e", "a", "m", "s">>
umpires == <<"u", "m", "p", "i", "r", "e", "s">>
list_cols_info == <<dates, player_of_match, teams, umpires>>
ID == <<"I", "D">>
MATCHID == <<"M", "A", "T", "C", "H", "I", "D">>
matchinfo == <<"m", "a", "t", "c", "h", "i", "n", "f", "o">>
innings == <<"i", "n", "n", "i", "n", "g", "s">>
delivery == <<"d", "e", "l", "i", "v", "e", "r", "y">>
info_sqlite == <<"i", "n", "f", "o", ".", "s", "q", "l", "i", "t", "e">>
delivery_sqlite == <<"d", "e", "l", "i", "v", "e", "r", "y", ".", "s", "q", "l", "i", "t", "e">>

(***************************************************************************)
(* The list parsers of edit_and_write_info                                 *)
(***************************************************************************)
\* length of the match of \d{4}, \d{2}, \d{1,2} at position i of s, 0 if none
DateMatchLen(s, i) ==
    IF /\ i + 10 <= Len(s)
       /\ \A k \in 0..3 : IsDigit(s[i + k])
       /\ s[i + 4] = "," /\ s[i + 5] = " "
       /\ IsDigit(s[i + 6]) /\ IsDigit(s[i + 7])
       /\ s[i + 8] = "," /\ s[i + 9] = " "
       /\ IsDigit(s[i + 10])
    THEN IF i + 11 <= Len(s) /\ IsDigit(s[i + 11]) THEN 12 ELSE 11
    ELSE 0

RECURSIVE FindAllFrom(_, _)
FindAllFrom(s, i) ==
    IF i > Len(s) THEN <<>>
    ELSE IF DateMatchLen(s, i) > 0
         THEN <<SubSeq(s, i, i + DateMatchLen(s, i) - 1)>> \o FindAllFrom(s, i + DateMatchLen(s, i))
    ELSE FindAllFrom(s, i + 1)

\* re.findall(r'\d{4}, \d{2}, \d{1,2}', s)
FindAllDates(s) == FindAllFrom(s, 1)

\* re.sub(r'-(\d)$', r'-0\1', y)
PadDay(y) ==
    IF Len(y) >= 2 /\ y[Len(y) - 1] = "-" /\ IsDigit(y[Len(y)])
    THEN SubSeq(y, 1, Len(y) - 1) \o <<"0", y[Len(y)]>>
    ELSE y

RECURSIVE PadMonthFrom(_, _)
PadMonthFrom(y, i) ==
    IF i > Len(y) THEN <<>>
    ELSE IF i + 2 <= Len(y) /\ y[i] = "-" /\ IsDigit(y[i + 1]) /\ y[i + 2] = "-"
         THEN <<"-", "0", y[i + 1], "-">> \o PadMonthFrom(y, i + 3)
    ELSE <<y[i]>> \o PadMonthFrom(y, i + 1)

\* re.sub(r'-(\d)-', r'-0\1-', y)
PadMonth(y) == PadMonthFrom(y, 1)

\* the branch col == 'dates' for one cell x
ParseDates(x) ==
    LET stripped == Replace(Slice1m1(x),
                            <<"d", "a", "t", "e", "t", "i", "m", "e", ".", "d", "a", "t", "e">>, <<>>)
        found == FindAllDates(stripped)
    IN [k \in 1..Len(found) |-> PadMonth(PadDay(Replace(found[k], <<",", " ">>, <<"-">>)))]

\* the else branch for one cell x
ParseList(x) == Split(Replace(Slice1m1(x), <<"'">>, <<>>), <<",", " ">>)

\* '{0:s}.{1:d}'.format(col[:-1], x+1)
NewCol(col, x) == SliceToM1(col) \o <<".">> \o IntStr(x + 1)

(***************************************************************************)
(* Data frames: index, ordered columns, rows aligned with the columns      *)
(***************************************************************************)
Frame(index, columns, data) == [index |-> index, columns |-> columns, data |-> data]

NRows(df) == Len(df.index)

ColPos(df, c) ==
    IF \E k \in 1..Len(df.columns) : df.columns[k] = c
    THEN CHOOSE k \in 1..Len(df.columns) : df.columns[k] = c
    ELSE 0

\* df[c].values
Values(df, c) == [r \in 1..NRows(df) |-> df.data[r][ColPos(df, c)]]

\* df.loc[:, c] = vals
SetColumn(df, c, vals) ==
    IF ColPos(df, c) > 0
    THEN [df EXCEPT !.data = [r \in 1..NRows(df) |-> [df.data[r] EXCEPT ![ColPos(df, c)] = vals[r]]]]
    ELSE [df EXCEPT !.columns = Append(df.columns, c),
                    !.data = [r \in 1..NRows(df) |-> Append(df.data[r], vals[r])]]

\* the frame restricted to the column positions idxs, in that order
Project(df, idxs) ==
    Frame(df.index,
          [k \in 1..Len(idxs) |-> df.columns[idxs[k]]],
          [r \in 1..NRows(df) |-> [k \in 1..Len(idxs) |-> df.data[r][idxs[k]]]])

Positions(df) == [k \in 1..Len(df.columns) |-> k]

\* df.drop(c, axis=1)
DropColumn(df, c) == Project(df, SelectSeq(Positions(df), LAMBDA k : df.columns[k] # c))

\* df[cols]
SelectColumns(df, cols) == Project(df, [k \in 1..Len(cols) |-> ColPos(df, cols[k])])

(***************************************************************************)
(* The corpus: one YAML document per match under the interim directory     *)
(***************************************************************************)
MaxDocs == 3
MaxRuns == 2

city == <<"c", "i", "t", "y">>
outcome == <<"o", "u", "t", "c", "o", "m", "e">>
by == <<"b", "y">>
runs_key == <<"r", "u", "n", "s">>
winner == <<"w", "i", "n", "n", "e", "r">>
toss == <<"t", "o", "s", "s">>
India == <<"I", "n", "d", "i", "a">>
Australia == <<"A", "u", "s", "t", "r", "a", "l", "i", "a">>
OBrien == <<"K", "J", " ", "O", "'", "B", "r", "i", "e", "n">>
Pune == <<"P", "u", "n", "e">>

Absent == [absent |-> TRUE]

\* values a document may hold in the field `dates`
DateVals ==
    { List(<<>>),
      List(<<Date(2020, 1, 5)>>),
      List(<<Date(2020, 3, 15), Date(2020, 3, 16)>>),
      List(<<Date(2020, 10, 5), Date(2020, 11, 16)>>),
      Absent }

\* values a document may hold in player_of_match, teams, umpires
NameVals ==
    { List(<<>>),
      List(<<Str(India)>>),
      List(<<Str(India), Str(Australia)>>),
      List(<<Str(OBrien), Str(India)>>),
      Absent }

FieldVals(f) == IF f = dates THEN DateVals ELSE NameVals

DefaultVal(f) ==
    IF f = dates THEN List(<<Date(2020, 10, 5)>>)
    ELSE IF f = player_of_match THEN List(<<Str(India)>>)
    ELSE List(<<Str(India), Str(Australia)>>)

\* yfile['info'] of a document whose list fields hold vals[1..4] (in the
\* order of list_cols_info); a field holding Absent is not in the document
InfoOf(vals) ==
    SelectSeq(<< <<city, Str(Pune)>>,
                 <<dates, vals[1]>>,
                 <<outcome, Dict(<< <<by, Dict(<< <<runs_key, Num(5)>> >>)>>,
                                    <<winner, Str(India)>> >>)>>,
                 <<player_of_match, vals[2]>>,
                 <<teams, vals[3]>>,
                 <<toss, Dict(<< <<winner, Str(India)>> >>)>>,
                 <<umpires, vals[4]>> >>,
              LAMBDA kv : kv[2] # Absent)

\* document number n (the digits of its file name) with list fields vals
Doc(n, vals) == [num |-> IntStr(100 + n), info |-> InfoOf(vals)]

\* the batches: 1..MaxDocs documents that differ in one list field f, the
\* other list fields holding DefaultVal; every list field occurs in at least
\* one document (info[col] raises KeyError otherwise)
Batches ==
    UNION { { [n \in 1..k |->
                 Doc(n, [j \in 1..4 |-> IF list_cols_info[j] = f THEN vs[n]
                                        ELSE DefaultVal(list_cols_info[j])])]
              : vs \in { w \in [1..k -> FieldVals(f)] : \E n \in 1..k : w[n] # Absent } }
            : f \in { list_cols_info[j] : j \in 1..4 }, k \in 1..MaxDocs }

\* get_data_interim_dir(date) on the platform the identifier pattern is
\* written for (path separator backslash)
get_data_interim_dir ==
    <<".", ".", "\\", "d", "a", "t", "a", "\\", "i", "n", "t", "e", "r", "i", "m", "\\",
      "2", "0", "2", "0", "-", "0", "1", "-", "0", "1">>

\* os.path.join(parent, file)
FileName(doc) == get_data_interim_dir \o <<"\\">> \o doc.num \o <<".", "y", "a", "m", "l">>

\* \d{4}-\d{2}-\d{2}\\(\d+) matches at position i of s
IdPatternAt(s, i) ==
    /\ i + 11 <= Len(s)
    /\ \A k \in {0, 1, 2, 3, 5, 6, 8, 9, 11} : IsDigit(s[i + k])
    /\ s[i + 4] = "-" /\ s[i + 7] = "-" /\ s[i + 10] = "\\"

RECURSIVE DigitRun(_, _)
DigitRun(s, i) == IF i <= Len(s) /\ IsDigit(s[i]) THEN <<s[i]>> \o DigitRun(s, i + 1) ELSE <<>>

\* re.search('\d{4}-\d{2}-\d{2}\\\\(\d+)', file).group(0)[11:]
matchid(file) ==
    LET i == CHOOSE j \in 1..Len(file) : IdPatternAt(file, j) /\ \A h \in 1..(j - 1) : ~IdPatternAt(file, h)
    IN DigitRun(file, i + 11)

(***************************************************************************)
(* aggregate_yaml_to_feather                                               *)
(***************************************************************************)
RECURSIVE json_normalize(_, _)
\* one row as a sequence of <<column name, value>>: a nested dict becomes
\* one column per leaf, named by the keys on its path joined with dots
json_normalize(kvs, prefix) ==
    IF kvs = <<>> THEN <<>>
    ELSE LET name == prefix \o kvs[1][1]
             v == kvs[1][2]
         IN (IF IsDict(v) THEN json_normalize(v.dict, name \o <<".">>) ELSE << <<name, v>> >>)
            \o json_normalize(Tail(kvs), prefix)

\* json_normalize(yfile['info']).assign(ID=matchid)
InfoRow(doc) == Append(json_normalize(doc.info, <<>>), <<ID, Str(matchid(FileName(doc)))>>)

HasKey(row, c) == \E k \in 1..Len(row) : row[k][1] = c
Lookup(row, c) == IF HasKey(row, c) THEN row[CHOOSE k \in 1..Len(row) : row[k][1] = c][2] ELSE NaN

RECURSIVE UnionColumns(_, _)
UnionColumns(rows, acc) ==
    IF rows = <<>> THEN acc
    ELSE LET new == SelectSeq([k \in 1..Len(rows[1]) |-> rows[1][k][1]],
                              LAMBDA c : \A j \in 1..Len(acc) : acc[j] # c)
         IN UnionColumns(Tail(rows), acc \o new)

\* pd.concat(info_dfs): the union of the columns, NaN where a row lacks one
concat(rows) ==
    LET cols == UnionColumns(rows, <<>>)
    IN Frame([r \in 1..Len(rows) |-> Num(0)], cols,
             [r \in 1..Len(rows) |-> [k \in 1..Len(cols) |-> Lookup(rows[r], cols[k])]])

\* infodf[col].dtype == 'object'
IsObject(df, c) == \E r \in 1..NRows(df) : ~IsNum(df.data[r][ColPos(df, c)]) /\ df.data[r][ColPos(df, c)] # NaN

\* the loop over infodf.columns: object columns become their str()
astype_str(df) ==
    [df EXCEPT !.data = [r \in 1..NRows(df) |->
        [k \in 1..Len(df.columns) |->
            IF IsObject(df, df.columns[k]) THEN Str(PyStr(df.data[r][k])) ELSE df.data[r][k]]]]

\* the info frame written to the feather file
aggregate_yaml_to_feather(corpus) == astype_str(concat([n \in 1..Len(corpus) |-> InfoRow(corpus[n])]))

(***************************************************************************)
(* edit_and_write_info                                                     *)
(***************************************************************************)
\* get_info_dataframe(date).rename(columns={'ID': 'MATCHID'}).set_index('MATCHID')
get_info_dataframe(fth) ==
    LET renamed == [fth EXCEPT !.columns = [k \in 1..Len(fth.columns) |->
                        IF fth.columns[k] = ID THEN MATCHID ELSE fth.columns[k]]]
    IN [DropColumn(renamed, MATCHID) EXCEPT !.index = Values(renamed, MATCHID)]

Max(ns) == CHOOSE n \in ns : \A m \in ns : m <= n

RECURSIVE AddNewCols(_, _, _, _)
\* for i, newcol in newcols.items(): info.loc[:, newcol] = [...]
AddNewCols(df, col, vals, i) ==
    IF i >= Max({Len(vals[r]) : r \in 1..Len(vals)}) THEN df
    ELSE AddNewCols(SetColumn(df, NewCol(col, i),
                              [r \in 1..Len(vals) |->
                                  IF i < Len(vals[r]) THEN Str(vals[r][i + 1]) ELSE None]),
                    col, vals, i + 1)

\* one iteration of the loop over list_cols_info
ExpandCol(df, col) ==
    LET raw == Values(df, col)
        vals == [r \in 1..Len(raw) |->
                    IF col = dates THEN ParseDates(raw[r].str) ELSE ParseList(raw[r].str)]
    IN DropColumn(AddNewCols(df, col, vals, 0), col)

RECURSIVE ExpandAll(_, _)
ExpandAll(df, cols) == IF cols = <<>> THEN df ELSE ExpandAll(ExpandCol(df, Head(cols)), Tail(cols))

edit_and_write_info(fth) == ExpandAll(get_info_dataframe(fth), list_cols_info)

\* edit_and_write_innings returns None
edit_and_write_innings == None

(***************************************************************************)
(* edit_feather_to_sql: the table router                                   *)
(***************************************************************************)
get_sql_db_fname(dbname) ==
    IF dbname = matchinfo THEN Str(info_sqlite)
    ELSE IF dbname = delivery THEN Str(delivery_sqlite)
    ELSE Dict(<< <<matchinfo, Str(info_sqlite)>>, <<delivery, Str(delivery_sqlite)>> >>)

\* df.filter(regex='\.')
filter_period(df) == Project(df, SelectSeq(Positions(df), LAMBDA k : Contains(df.columns[k], ".")))

\* df.drop(df.filter(regex='\.').columns, axis=1)
drop_period(df) ==
    LET gone == filter_period(df).columns
    IN Project(df, SelectSeq(Positions(df),
                             LAMBDA k : \A j \in 1..Len(gone) : gone[j] # df.columns[k]))

\* col[:col.rindex('.')]: the text before the last dot
tname_of_last(col) ==
    SubSeq(col, 1, (CHOOSE k \in 1..Len(col) : col[k] = "." /\ \A j \in (k + 1)..Len(col) : col[j] # ".") - 1)

\* col[:col.index('.')]
tname_of(col) == SubSeq(col, 1, IndexOf(col, ".") - 1)

RECURSIVE GroupCols(_, _)
\* the loop filling col_to_table, a dict kept in insertion order:
\* a sequence of [tname, cols]
GroupCols(cols, acc) ==
    IF cols = <<>> THEN acc
    ELSE LET t == tname_of(Head(cols))
             known == \E k \in 1..Len(acc) : acc[k].tname = t
         IN GroupCols(Tail(cols),
                      IF known
                      THEN [k \in 1..Len(acc) |->
                               IF acc[k].tname = t
                               THEN [acc[k] EXCEPT !.cols = Append(@, Head(cols))]
                               ELSE acc[k]]
                      ELSE Append(acc, [tname |-> t, cols |-> <<Head(cols)>>]))

col_to_table(period_df) == GroupCols(period_df.columns, <<>>)

\* to_sql(..., index=False): the index is not written
Relation_noindex(df) == [columns |-> df.columns, rows |-> df.data]

\* the relation DataFrame.to_sql makes of df: the index, under its label,
\* is the first column (index=True is to_sql's default)
Relation(df) ==
    [columns |-> <<MATCHID>> \o df.columns,
     rows |-> [r \in 1..NRows(df) |-> <<df.index[r]>> \o df.data[r]]]

\* to_sql(..., if_exists='append'): rows are added to an existing relation
to_sql_append(st, df, name) ==
    [n \in (DOMAIN st) \cup {name} |->
        IF n # name THEN st[n]
        ELSE IF name \in DOMAIN st
             THEN [st[name] EXCEPT !.rows = @ \o [r \in 1..NRows(df) |-> <<df.index[r]>> \o df.data[r]]]
        ELSE [columns |-> <<MATCHID>> \o df.columns,
              rows |-> [r \in 1..NRows(df) |-> <<df.index[r]>> \o df.data[r]]]]

\* df.to_sql(name, con=conn, if_exists='replace') on the relations st
to_sql(st, df, name) ==
    [n \in (DOMAIN st) \cup {name} |-> IF n = name THEN Relation(df) ELSE st[n]]

(***************************************************************************)
(* State                                                                   *)
(***************************************************************************)
VARIABLES
    docs,      \* the documents of the batch, in os.listdir order
    feather,   \* the info frame in the feather file, None before it is written
    info,      \* the frame edit_and_write_info returned to the current run
    pc,        \* position: "aggregate", "idle", "primary", "satellite", "innings"
    todo,      \* the entries of col_to_table the loop has still to write
    store,     \* the relations of info.sqlite: name -> [columns, rows]
    log,       \* the to_sql calls of the current run: [name, columns, ok]
    runs,      \* number of calls of edit_feather_to_sql that have ended
    raised     \* the exception that ended the last run, "none" if none

vars == <<docs, feather, info, pc, todo, store, log, runs, raised>>

team == <<"t", "e", "a", "m">>

\* relations left by an earlier run on another batch
StaleStore ==
    [n \in {matchinfo, team, SliceToM1(dates)} |->
        IF n = matchinfo
        THEN [columns |-> <<MATCHID, city>>, rows |-> << <<Str(IntStr(7)), Str(Pune)>> >>]
        ELSE IF n = SliceToM1(dates)
        THEN [columns |-> <<MATCHID, NewCol(dates, 0)>>, rows |-> << <<Str(IntStr(7)), None>> >>]
        ELSE [columns |-> <<MATCHID, NewCol(teams, 0), NewCol(teams, 1), NewCol(teams, 2)>>,
              rows |-> << <<Str(IntStr(7)), Str(India), Str(Australia), Str(Pune)>> >>]]

EmptyStore == [n \in {} |-> None]

Init ==
    /\ docs \in Batches
    /\ feather = None
    /\ info = None
    /\ pc = "aggregate"
    /\ todo = <<>>
    /\ store \in {EmptyStore, StaleStore}
    /\ log = <<>>
    /\ runs = 0
    /\ raised = "none"

\* aggregate_yaml_to_feather
Aggregate ==
    /\ pc = "aggregate"
    /\ feather' = aggregate_yaml_to_feather(docs)
    /\ pc' = "idle"
    /\ UNCHANGED <<docs, info, todo, store, log, runs, raised>>

\* edit_feather_to_sql up to the first to_sql: info and innings are computed,
\* the loop takes (info, 'matchinfo') and connects to its database
EditFeather ==
    /\ pc = "idle"
    /\ runs < MaxRuns
    /\ info' = edit_and_write_info(feather)
    /\ IsStr(get_sql_db_fname(matchinfo))
    /\ log' = <<>>
    /\ todo' = <<>>
    /\ raised' = "none"
    /\ pc' = "primary"
    /\ UNCHANGED <<docs, feather, store, runs>>

LogEntry(name, df, ok) == [name |-> name, columns |-> df.columns, ok |-> ok]

\* no_period_df.to_sql(dbname, ...) succeeds; col_to_table is filled
WritePrimary ==
    /\ pc = "primary"
    /\ store' = to_sql(store, drop_period(info), matchinfo)
    /\ log' = Append(log, LogEntry(matchinfo, drop_period(info), TRUE))
    /\ todo' = col_to_table(filter_period(info))
    /\ pc' = "satellite"
    /\ UNCHANGED <<docs, feather, info, runs, raised>>

\* tmp.to_sql(tbl, ...) succeeds for the next tbl of col_to_table
WriteSatellite ==
    /\ pc = "satellite"
    /\ todo # <<>>
    /\ LET tbl == Head(todo).tname
           tmp == SelectColumns(filter_period(info), Head(todo).cols)
       IN /\ store' = to_sql(store, tmp, tbl)
          /\ log' = Append(log, LogEntry(tbl, tmp, TRUE))
    /\ todo' = Tail(todo)
    /\ UNCHANGED <<docs, feather, info, pc, runs, raised>>

\* conn.commit(); conn.close() (to_sql has committed each relation already)
Commit ==
    /\ pc = "satellite"
    /\ todo = <<>>
    /\ pc' = "innings"
    /\ UNCHANGED <<docs, feather, info, todo, store, log, runs, raised>>

\* the loop takes (innings, 'innings'): innings is None, so df.filter
\* raises AttributeError and the call ends there
RouteInnings ==
    /\ pc = "innings"
    /\ edit_and_write_innings = None
    /\ raised' = "AttributeError"
    /\ runs' = runs + 1
    /\ pc' = "idle"
    /\ UNCHANGED <<docs, feather, info, todo, store, log>>

Next ==
    \/ Aggregate
    \/ EditFeather
    \/ WritePrimary
    \/ WriteSatellite
    \/ Commit
    \/ RouteInnings

Spec == Init /\ [][Next]_vars

\* to_sql raises (database locked, disk full, ...): nothing catches it, and
\* the call of edit_feather_to_sql ends with the exception
WritePrimaryFails ==
    /\ pc = "primary"
    /\ log' = Append(log, LogEntry(matchinfo, drop_period(info), FALSE))
    /\ raised' = "OperationalError"
    /\ runs' = runs + 1
    /\ pc' = "idle"
    /\ UNCHANGED <<docs, feather, info, todo, store>>

WriteSatelliteFails ==
    /\ pc = "satellite"
    /\ todo # <<>>
    /\ log' = Append(log, LogEntry(Head(todo).tname,
                                   SelectColumns(filter_period(info), Head(todo).cols), FALSE))
    /\ raised' = "OperationalError"
    /\ runs' = runs + 1
    /\ pc' = "idle"
    /\ UNCHANGED <<docs, feather, info, todo, store>>

NextFail ==
    \/ Next
    \/ WritePrimaryFails
    \/ WriteSatelliteFails

\* the same program on an output store whose writes may fail
SpecFail == Init /\ [][NextFail]_vars

(***************************************************************************)
(* Properties                                                              *)
(***************************************************************************)
Dotless(c) == \A h \in 1..Len(c) : c[h] # "."

\* the text of c before its first dot is p
PrefixIs(c, p) ==
    \E d \in 1..Len(c) : c[d] = "." /\ (\A h \in 1..(d - 1) : c[h] # ".") /\ p = SubSeq(c, 1, d - 1)

InSeq(x, xs) == \E h \in 1..Len(xs) : xs[h] = x

\* the cell of row r under column c, or a marker when df has no column c
Cell(df, r, c) == IF ColPos(df, c) = 0 THEN [nocolumn |-> TRUE] ELSE df.data[r][ColPos(df, c)]

\* the elements document r holds in list field f (none when it lacks f)
Elems(r, f) == IF HasKey(docs[r].info, f) THEN Lookup(docs[r].info, f).list ELSE <<>>

MaxElems(f) == Max({Len(Elems(r, f)) : r \in 1..Len(docs)})

\* c is a positional column expanded from list field f
ExpandedFrom(c, f) == \E i \in 0..(Len(c)) : c = NewCol(f, i)

Pad2(n) == IF n < 10 THEN <<"0">> \o IntStr(n) ELSE IntStr(n)
IsoDate(d) == IntStr(d[1]) \o <<"-">> \o Pad2(d[2]) \o <<"-">> \o Pad2(d[3])

\* C1: once every partition of the info table is written, each of its
\* columns is in exactly one written relation: the primary relation
\* (matchinfo) if the column name has no dot, else the relation named by
\* the text before the column name's first dot; and the stored relation of
\* that name holds the column.
C1_Routing ==
    pc = "innings" =>
        \A k \in 1..Len(info.columns) :
            LET c == info.columns[k]
                hits == { j \in 1..Len(log) : log[j].ok /\ InSeq(c, log[j].columns) }
            IN /\ Cardinality(hits) = 1
               /\ \A j \in hits :
                    /\ IF Dotless(c) THEN log[j].name = matchinfo ELSE PrefixIs(c, log[j].name)
                    /\ log[j].name \in DOMAIN store
                    /\ InSeq(c, store[log[j].name].columns)
                    /\ \A n \in (DOMAIN store) \ {log[j].name} :
                           InSeq(n, [h \in 1..Len(log) |-> log[h].name]) => ~InSeq(c, store[n].columns)

\* C1 witness: a run has written the primary relation and several
\* satellites, among them one for a column with two dots
C1_Witness ==
    /\ pc = "innings"
    /\ Len(log) >= 3
    /\ \E k \in 1..Len(info.columns) : Dotless(info.columns[k])
    /\ \E k \in 1..Len(info.columns) :
           Cardinality({h \in 1..Len(info.columns[k]) : info.columns[k][h] = "."}) = 2

\* C2: every document holding dates d1..dk gets date.i = YYYY-MM-DD of di
\* for i <= k and null for k < i <= N, N the largest k of the batch.
C2_DatesExpanded ==
    info # None =>
        \A r \in 1..Len(docs) :
            HasKey(docs[r].info, dates) =>
                \A i \in 1..MaxElems(dates) :
                    Cell(info, r, <<"d", "a", "t", "e", ".">> \o IntStr(i)) =
                        IF i <= Len(Elems(r, dates)) THEN Str(IsoDate(Elems(r, dates)[i].date))
                        ELSE None

\* C3: for every declared list field, the positional columns of the table
\* are exactly those numbered 1..N, N the largest number of elements the
\* field holds in a document of the batch (none when N = 0).
C3_ExactlyNColumns ==
    info # None =>
        \A f \in {list_cols_info[j] : j \in 1..Len(list_cols_info)} :
            {info.columns[k] : k \in {h \in 1..Len(info.columns) : ExpandedFrom(info.columns[h], f)}}
                = {NewCol(f, i) : i \in 0..(MaxElems(f) - 1)}

\* C4: a document that lacks umpires, in a batch where another document
\* has it, holds null in every umpire.N column.
C4_MissingIsNull ==
    info # None =>
        \A r \in 1..Len(docs) :
            ~HasKey(docs[r].info, umpires) =>
                \A k \in 1..Len(info.columns) :
                    ExpandedFrom(info.columns[k], umpires) => info.data[r][k] = None

\* C5: a document whose player_of_match, teams or umpires is the list
\* [a, b] has basename.1 = a and basename.2 = b, unchanged.
C5_RoundTrip ==
    info # None =>
        \A r \in 1..Len(docs) : \A f \in {player_of_match, teams, umpires} :
            Len(Elems(r, f)) = 2 =>
                /\ Cell(info, r, NewCol(f, 0)) = Elems(r, f)[1]
                /\ Cell(info, r, NewCol(f, 1)) = Elems(r, f)[2]

\* C6: every relation the run has written holds, in its first column
\* MATCHID, the identifier of every document of the batch, row by row.
C6_Joinable ==
    \A j \in 1..Len(log) :
        log[j].ok =>
            /\ log[j].name \in DOMAIN store
            /\ LET rel == store[log[j].name]
               IN /\ rel.columns[1] = MATCHID
                  /\ Len(rel.rows) = Len(docs)
                  /\ \A r \in 1..Len(docs) : rel.rows[r][1] = Str(docs[r].num)

\* C6 witness: a run over at least two documents has written the primary
\* relation and at least one satellite
C6_Witness == pc = "innings" /\ Len(docs) >= 2 /\ Len(log) >= 2

\* C7: once edit_feather_to_sql has run on the batch, no step of a later
\* run on the same batch changes the store: each relation is replaced by
\* an equal one.
C7_Idempotent == [][runs >= 1 => store' = store]_vars

\* C7 witness: a second run has written all its partitions over the
\* relations of the first
C7_Witness == runs = 1 /\ pc = "innings" /\ Len(log) >= 3

\* C8: when a write has failed, every partition of the run has still been
\* attempted by the time the run ends.
C8_OthersAttempted ==
    (pc = "idle" /\ runs >= 1 /\ \E j \in 1..Len(log) : ~log[j].ok) =>
        \A k \in 1..Len(info.columns) : \E j \in 1..Len(log) : InSeq(info.columns[k], log[j].columns)

\* C9: a run that has ended has ended without an exception and has written
\* the primary relations matchinfo and innings.
C9_BothKindsPersisted ==
    (pc = "idle" /\ runs >= 1) =>
        /\ raised = "none"
        /\ \E j \in 1..Len(log) : log[j].ok /\ log[j].name = matchinfo
        /\ \E j \in 1..Len(log) : log[j].ok /\ log[j].name = innings

\* C10: the basename of every expanded column, the text before its dot, is
\* the field name without its plural marker: basename + "s" is the field.
C10_PluralStripped ==
    info # None =>
        \A f \in {list_cols_info[j] : j \in 1..Len(list_cols_info)} :
            \A k \in 1..Len(info.columns) :
                ExpandedFrom(info.columns[k], f) =>
                    \E b \in {SubSeq(f, 1, n) : n \in 0..Len(f)} :
                        PrefixIs(info.columns[k], b) /\ b \o <<"s">> = f

====
